---- MODULE Spec2Model ----
(***************************************************************************)
(* DataSourceManager of lib/datasource_manager.py: the provider registry,  *)
(* the hourly usage-reset thread, the per-disable re-enable timers and     *)
(* fetch_weather_data, called from several request threads.                *)
(*                                                                         *)
(* Time.  The code compares wall-clock readings only through differences:  *)
(* current_time - last_reset >= 3600, sleep(3600), sleep(300).  The model  *)
(* therefore keeps clocks relative to "now": since_reset is                *)
(* time.time() - last_reset, cut off at the reset window (the only value   *)
(* it is compared with), and a sleeping thread carries the time it still   *)
(* has to sleep.  Tick lets Quantum seconds pass.  A sleep lasts at least  *)
(* its argument: a thread whose sleep is over runs at some later step.     *)
(* The scan of reset_usage over the providers takes no time.               *)
(***************************************************************************)
EXTENDS Integers, Sequences, FiniteSets, TLC

(* ------------------------------ bounds -------------------------------- *)

\* rate_limit of metno in the model (5000 in the code, line 46)
MetnoLimit == 2
\* rate_limit of openweathermap in the model (1000 in the code, line 57)
OpenWeatherMapLimit == 1
\* rate_limit of weatherapi in the model (1000000 in the code, line 68)
WeatherApiLimit == 2
\* rate_limit of accuweather in the model (50 in the code, line 79)
AccuWeatherLimit == 1
\* seconds that pass in one Tick
Quantum == 1800
\* reenable threads that may be alive together
MaxTimers == 2
\* frames of reset_usage the interpreter allows (sys.getrecursionlimit(), 1000 by default)
RecursionLimit == 2
\* the days argument of a followed call ranges over 0..MaxDays
MaxDays == 3
\* a payload carries 0..MaxAvailable daily records
MaxAvailable == 2
\* temperatures in payloads, in whole degrees Celsius: -MaxFrostC..MaxTempC
MaxFrostC == 40
MaxTempC == 100
\* wind directions in payloads: 0..MaxQuarterDegrees quarters of a degree (0..360 degrees)
MaxQuarterDegrees == 1440
\* OpenWeatherMap condition ids in payloads
MinOwmCode == 199
MaxOwmCode == 805

(* --------------------------- program constants ------------------------ *)

\* line 87: current_time - source.last_reset >= 3600
ResetWindow == 3600
\* line 91: time.sleep(3600)
SweepSleep == 3600
\* line 122: time.sleep(300)
CoolDown == 300

(* The request threads that call fetch_weather_data on the global instance. *)
Threads == {"t1", "t2"}

(* Python's None, and the value a call that has not returned yet has. *)
None == "None"
Pending == "Pending"
(* What a caller sees when an exception leaves fetch_weather_data. *)
Raised == "Raised"

(* The non-empty dicts _fetch_from_source may give (it may also give None, *)
(* or raise).                                                             *)
Payloads == {"wx"}

(* The environment variables _load_sources reads, in the order it reads   *)
(* them, and the provider each one gives access to.                       *)
EnvVars == {"OPENWEATHERMAP_API_KEY", "WEATHERAPI_KEY", "ACCUWEATHER_API_KEY"}

(* An environment gives every variable its value, None when it is not set. *)
(* Environments: the ones the process is started in here.                  *)
NoCredentials == [v \in EnvVars |-> None]
Environments == {NoCredentials, [NoCredentials EXCEPT !["ACCUWEATHER_API_KEY"] = "k1"]}

(* Every environment over the values unset, empty and two keys. *)
AllEnvironments == [EnvVars -> {None, "", "k1", "k2"}]

(* Every credential is set. *)
FullEnvironment == [v \in EnvVars |-> "k1"]

(* os.environ.get(name): the value, None when the variable is not set. *)
os_environ_get(env, name) == env[name]

(* A faulty truthy: the empty string counts as a credential. *)
truthy_if_set(api_key) == api_key # None

(* "if api_key:" (lines 51, 62, 73): neither None nor the empty string. *)
truthy(api_key) == api_key # None /\ api_key # ""

(* DataSource(...) with the dataclass defaults of lines 28-31.  since_reset  *)
(* is time.time() - last_reset: last_reset = 0 lies more than a window back. *)
DataSource(name, type, base_url, api_key, rate_limit) ==
    [name |-> name, type |-> type, base_url |-> base_url, api_key |-> api_key,
     rate_limit |-> rate_limit, current_usage |-> 0,
     since_reset |-> ResetWindow, enabled |-> TRUE]

(* The registry _load_sources builds from the environment env. *)
_load_sources(env) ==
    LET owm == os_environ_get(env, "OPENWEATHERMAP_API_KEY")
        wapi == os_environ_get(env, "WEATHERAPI_KEY")
        accu == os_environ_get(env, "ACCUWEATHER_API_KEY")
        keys == {"metno"}
                \cup (IF truthy(owm) THEN {"openweathermap"} ELSE {})
                \cup (IF truthy(wapi) THEN {"weatherapi"} ELSE {})
                \cup (IF truthy(accu) THEN {"accuweather"} ELSE {})
    IN [k \in keys |->
          CASE k = "metno" ->
                 DataSource("metno", "METNO", "https://api.met.no", None, MetnoLimit)
            [] k = "openweathermap" ->
                 DataSource("openweathermap", "OPENWEATHERMAP",
                            "https://api.openweathermap.org/data/2.5",
                            owm, OpenWeatherMapLimit)
            [] k = "weatherapi" ->
                 DataSource("weatherapi", "WEATHERAPI", "https://api.weatherapi.com/v1",
                            wapi, WeatherApiLimit)
            [] k = "accuweather" ->
                 DataSource("accuweather", "ACCUWEATHER",
                            "https://dataservice.accuweather.com",
                            accu, AccuWeatherLimit)]

(* Insertion order of self.sources, the order .values() iterates in. *)
InsertionOrder == <<"metno", "openweathermap", "weatherapi", "accuweather">>

VARIABLES
    sources,      \* self.sources: name -> DataSource
    timers,       \* name -> the reenable threads of that provider: seconds each still sleeps, oldest first
    pc,           \* thread -> where its fetch_weather_data call stands
    source,       \* thread -> the provider get_available_source returned to it (its name), or None
    data,         \* thread -> what _fetch_from_source gave it
    usage_read,   \* thread -> current_usage as read by its "+= 1"
    result,       \* thread -> what its last call returned, Pending while a call runs
    attempts,     \* thread -> calls of _fetch_from_source made by its current call
    sweep_pc,     \* the reset thread: "start", "scan", "sleep" or "dead"
    sweep_todo,   \* the providers reset_usage's loop has still to visit
    sleep_left,   \* seconds the reset thread still sleeps
    depth,        \* frames of reset_usage on the reset thread's stack
    cooling,      \* name -> seconds since each disable_source call of the last CoolDown seconds, oldest first
    environ,      \* os.environ: variable -> its value, None when not set
    days,         \* the days argument of the fetch_weather_data calls
    response,     \* what the provider answered to the call in progress, where that is followed
    dispatched    \* name -> calls of _fetch_from_source for that provider since its counter was last reset, counted up to rate_limit + 1; empty where they are not counted

vars == <<sources, timers, pc, source, data, usage_read, result, attempts,
          sweep_pc, sweep_todo, sleep_left, depth, cooling, environ, days, response,
          dispatched>>

request_vars == <<pc, source, data, usage_read, result, attempts>>
sweep_vars == <<sweep_pc, sweep_todo, sleep_left, depth>>
io_vars == <<environ, days, response>>

Names == DOMAIN sources

(* No response is being followed. *)
NoResponse == [status_code |-> 0]

(* line 127: days: int = 3. *)
DefaultDays == 3

(* __init__ in environment env: the registry is loaded and the reset       *)
(* thread is started; the calls that follow ask for d days.                *)
InitWith(env, d) ==
    /\ environ = env
    /\ sources = _load_sources(env)
    /\ timers = [p \in DOMAIN sources |-> <<>>]
    /\ cooling = [p \in DOMAIN sources |-> <<>>]
    /\ pc = [t \in Threads |-> "idle"]
    /\ source = [t \in Threads |-> None]
    /\ data = [t \in Threads |-> None]
    /\ usage_read = [t \in Threads |-> 0]
    /\ result = [t \in Threads |-> Pending]
    /\ attempts = [t \in Threads |-> 0]
    /\ sweep_pc = "start"
    /\ sweep_todo = <<>>
    /\ sleep_left = 0
    /\ depth = 0
    /\ days = d
    /\ response = NoResponse

(* The calls of _fetch_from_source are not counted. *)
NotCounted == <<>>

Init == \E env \in Environments : InitWith(env, DefaultDays) /\ dispatched = NotCounted

(* ------------------------------ helpers ------------------------------- *)

Min(a, b) == IF a <= b THEN a ELSE b

(* r seconds of sleep left, Quantum seconds later. *)
SleepAfterTick(r) == IF r <= Quantum THEN 0 ELSE r - Quantum

RECURSIVE MapSleep(_)
MapSleep(s) == IF s = <<>> THEN <<>> ELSE <<SleepAfterTick(Head(s))>> \o MapSleep(Tail(s))

(* The ages of the recorded disable calls Quantum seconds later; an age of *)
(* CoolDown or more is dropped: that call's cool-down has expired.          *)
RECURSIVE AgeCooling(_)
AgeCooling(s) ==
    IF s = <<>> THEN <<>>
    ELSE IF Head(s) + Quantum >= CoolDown THEN AgeCooling(Tail(s))
         ELSE <<Head(s) + Quantum>> \o AgeCooling(Tail(s))

RECURSIVE KeysInOrder(_)
KeysInOrder(order) ==
    IF order = <<>> THEN <<>>
    ELSE IF Head(order) \in Names THEN <<Head(order)>> \o KeysInOrder(Tail(order))
         ELSE KeysInOrder(Tail(order))

(* --------------------------- get_available_source --------------------- *)

(* A faulty available_sources: a source at its rate limit still counts. *)
available_sources_at_limit ==
    {p \in Names : sources[p].enabled /\ sources[p].current_usage <= sources[p].rate_limit}

(* A faulty available_sources: the enabled flag is not looked at. *)
available_sources_any_flag ==
    {p \in Names : sources[p].current_usage < sources[p].rate_limit}

(* lines 100-103: the list comprehension. *)
available_sources ==
    {p \in Names : sources[p].enabled /\ sources[p].current_usage < sources[p].rate_limit}

(* A faulty get_available_source: the first source in insertion order.    *)
get_available_source_first ==
    IF available_sources = {} THEN {None}
    ELSE {CHOOSE p \in available_sources :
            \A q \in available_sources :
                \E i, j \in 1..Len(InsertionOrder) :
                    InsertionOrder[i] = p /\ InsertionOrder[j] = q /\ i <= j}

(* A faulty get_available_source: with nothing available, any source.     *)
get_available_source_fallback ==
    IF available_sources = {} THEN Names ELSE available_sources

(* lines 98-109: the values the call may return: None, or any element of   *)
(* the list (random.choice).                                               *)
get_available_source ==
    IF available_sources = {} THEN {None} ELSE available_sources

(* ------------------------------ disable_source ------------------------ *)

RECURSIVE SumLen(_)
SumLen(S) == IF S = {} THEN 0 ELSE LET p == CHOOSE q \in S : TRUE IN Len(timers[p]) + SumLen(S \ {p})

(* The reenable threads that have not finished. *)
LiveTimers == SumLen(Names)

(* A faulty disable_source: the flag is cleared and no thread is started. *)
disable_source_no_timer(source_name) ==
    /\ LiveTimers < MaxTimers
    /\ sources' = [sources EXCEPT ![source_name].enabled = FALSE]
    /\ timers' = timers
    /\ cooling' = [cooling EXCEPT ![source_name] = Append(@, 0)]

(* lines 116-125: enabled = False, and a reenable thread that sleeps       *)
(* CoolDown seconds.  cooling records the call.                            *)
disable_source(source_name) ==
    /\ LiveTimers < MaxTimers
    /\ sources' = [sources EXCEPT ![source_name].enabled = FALSE]
    /\ timers' = [timers EXCEPT ![source_name] = Append(@, CoolDown)]
    /\ cooling' = [cooling EXCEPT ![source_name] = Append(@, 0)]

(* lines 121-123: a reenable thread whose sleep is over sets enabled = True. *)
Reenable(p) ==
    /\ p \in Names
    /\ timers[p] # <<>>
    /\ Head(timers[p]) = 0
    /\ sources' = [sources EXCEPT ![p].enabled = TRUE]
    /\ timers' = [timers EXCEPT ![p] = Tail(@)]
    /\ UNCHANGED <<request_vars, sweep_vars, io_vars, cooling, dispatched>>

(* ---------------------------- fetch_weather_data ---------------------- *)

(* line 134: one more call of _fetch_from_source for provider s. *)
counted(s) ==
    IF s \in DOMAIN dispatched
    THEN [dispatched EXCEPT ![s] = Min(@ + 1, sources[s].rate_limit + 1)]
    ELSE dispatched

(* lines 129-131: source = self.get_available_source(); None is returned   *)
(* when there is none, else _fetch_from_source is entered (line 134).      *)
GetSource(t) ==
    /\ pc[t] = "idle"
    /\ \E s \in get_available_source :
          IF s = None
          THEN /\ result' = [result EXCEPT ![t] = None]
               /\ UNCHANGED <<pc, source, attempts, dispatched>>
          ELSE /\ pc' = [pc EXCEPT ![t] = "fetching"]
               /\ source' = [source EXCEPT ![t] = s]
               /\ attempts' = [attempts EXCEPT ![t] = @ + 1]
               /\ result' = [result EXCEPT ![t] = Pending]
               /\ dispatched' = counted(s)
    /\ UNCHANGED <<sources, timers, data, usage_read, sweep_vars, io_vars, cooling>>

(* lines 134-136 and 113-114: the fetch gave a non-empty dict d;           *)
(* mark_source_used finds the name and reads current_usage for its "+= 1". *)
FetchReturnsData(t, d) ==
    /\ pc[t] = "fetching"
    /\ data' = [data EXCEPT ![t] = d]
    /\ usage_read' = [usage_read EXCEPT ![t] = sources[source[t]].current_usage]
    /\ pc' = [pc EXCEPT ![t] = "mark"]
    /\ UNCHANGED <<sources, timers, source, result, attempts, sweep_vars, io_vars, cooling,
                   dispatched>>

(* A faulty mark_source_used: the usage is counted twice. *)
mark_source_used_twice(read) == read + 2

(* The value "+= 1" stores. *)
mark_source_used(read) == read + 1

(* The locals of a call that has returned. *)
Returned(t) ==
    /\ pc' = [pc EXCEPT ![t] = "idle"]
    /\ source' = [source EXCEPT ![t] = None]
    /\ data' = [data EXCEPT ![t] = None]
    /\ usage_read' = [usage_read EXCEPT ![t] = 0]
    /\ attempts' = [attempts EXCEPT ![t] = 0]

(* lines 114 and 137: the "+= 1" stores its sum, and data is returned.     *)
MarkSourceUsed(t) ==
    /\ pc[t] = "mark"
    /\ sources' = [sources EXCEPT ![source[t]].current_usage = mark_source_used(usage_read[t])]
    /\ result' = [result EXCEPT ![t] = data[t]]
    /\ Returned(t)
    /\ UNCHANGED <<timers, sweep_vars, io_vars, cooling, dispatched>>

(* lines 138-140: the fetch gave None (or an empty dict). *)
FetchReturnsNone(t) ==
    /\ pc[t] = "fetching"
    /\ disable_source(source[t])
    /\ result' = [result EXCEPT ![t] = None]
    /\ Returned(t)
    /\ UNCHANGED <<sweep_vars, io_vars, dispatched>>

(* A faulty except_Exception: the exception is not caught. *)
except_nothing == Raised

(* What the caller gets when the fetch raised: line 144. *)
except_Exception == None

(* A faulty FetchRaises: after the failure the call goes on with another  *)
(* provider.                                                               *)
FetchRaises_retry(t) ==
    /\ pc[t] = "fetching"
    /\ disable_source(source[t])
    /\ \E s \in Names \ {source[t]} : source' = [source EXCEPT ![t] = s]
    /\ attempts' = [attempts EXCEPT ![t] = @ + 1]
    /\ UNCHANGED <<pc, data, usage_read, result, sweep_vars, io_vars, dispatched>>

(* lines 141-144: the fetch raised an Exception. *)
FetchRaises(t) ==
    /\ pc[t] = "fetching"
    /\ disable_source(source[t])
    /\ result' = [result EXCEPT ![t] = except_Exception]
    /\ Returned(t)
    /\ UNCHANGED <<sweep_vars, io_vars, dispatched>>

(* ------------------------- _start_usage_reset_timer ------------------- *)

(* A faulty reset_due: a strict comparison. *)
reset_due_strict(p) == sources[p].since_reset > ResetWindow

(* line 87: current_time - source.last_reset >= 3600. *)
reset_due(p) == sources[p].since_reset >= ResetWindow

(* A faulty reset_source: the counter is cleared, last_reset is not set. *)
reset_source_keeps_last_reset(p) ==
    IF reset_due(p)
    THEN [sources EXCEPT ![p].current_usage = 0]
    ELSE sources

(* A faulty reset_source: a reset also enables the source. *)
reset_source_enables(p) ==
    IF reset_due(p)
    THEN [sources EXCEPT ![p].current_usage = 0, ![p].since_reset = 0, ![p].enabled = TRUE]
    ELSE sources

(* lines 87-89: the loop body for source p; last_reset = current_time      *)
(* makes time.time() - last_reset zero.                                    *)
reset_source(p) ==
    IF reset_due(p)
    THEN [sources EXCEPT ![p].current_usage = 0, ![p].since_reset = 0]
    ELSE sources

(* A faulty loop_after: the loop stops after its first source. *)
loop_after_first(todo) == <<>>

(* line 86: what the for loop has left after the source at the head. *)
loop_after(todo) == Tail(todo)

(* line 88: a reset of p's counter starts a new quota window of p. *)
window(p) ==
    IF reset_due(p) /\ p \in DOMAIN dispatched
    THEN [dispatched EXCEPT ![p] = 0]
    ELSE dispatched

(* lines 95-96 and 85-86: the thread runs reset_usage for the first time:  *)
(* current_time = time.time(), and the loop over self.sources.values().    *)
SweepStart ==
    /\ sweep_pc = "start"
    /\ sweep_pc' = "scan"
    /\ sweep_todo' = KeysInOrder(InsertionOrder)
    /\ depth' = depth + 1
    /\ UNCHANGED <<sources, timers, request_vars, io_vars, sleep_left, cooling, dispatched>>

(* lines 86-91: one pass of the loop body; after the last source the       *)
(* thread goes to sleep for SweepSleep seconds.                            *)
SweepVisit ==
    /\ sweep_pc = "scan"
    /\ sweep_todo # <<>>
    /\ sources' = reset_source(Head(sweep_todo))
    /\ dispatched' = window(Head(sweep_todo))
    /\ sweep_todo' = loop_after(sweep_todo)
    /\ IF loop_after(sweep_todo) = <<>>
       THEN sweep_pc' = "sleep" /\ sleep_left' = SweepSleep
       ELSE UNCHANGED <<sweep_pc, sleep_left>>
    /\ UNCHANGED <<timers, request_vars, io_vars, depth, cooling>>

(* line 92: reset_usage() calls itself, which needs one more frame; the    *)
(* interpreter raises RecursionError when the stack is RecursionLimit deep. *)
can_recurse == depth < RecursionLimit

(* lines 91-92 and 85-86: the sleep is over and reset_usage calls itself:  *)
(* a new scan starts, or RecursionError ends the thread.                   *)
SweepWake ==
    /\ sweep_pc = "sleep"
    /\ sleep_left = 0
    /\ IF can_recurse
       THEN /\ sweep_pc' = "scan"
            /\ sweep_todo' = KeysInOrder(InsertionOrder)
            /\ depth' = depth + 1
       ELSE /\ sweep_pc' = "dead"
            /\ UNCHANGED <<sweep_todo, depth>>
    /\ UNCHANGED <<sources, timers, request_vars, io_vars, sleep_left, cooling, dispatched>>

(* ---------------------------------- time ------------------------------ *)

(* Quantum seconds pass: every sleep is that much shorter, every           *)
(* time.time() - last_reset that much longer.                              *)
Tick ==
    /\ sweep_pc # "scan"
    /\ sources' = [p \in Names |->
                     [sources[p] EXCEPT !.since_reset = Min(@ + Quantum, ResetWindow)]]
    /\ timers' = [p \in Names |-> MapSleep(timers[p])]
    /\ cooling' = [p \in Names |-> AgeCooling(cooling[p])]
    /\ sleep_left' = SleepAfterTick(sleep_left)
    /\ UNCHANGED <<request_vars, io_vars, sweep_pc, sweep_todo, depth, dispatched>>

(* ------------------------------ specification ------------------------- *)

AllNames == {InsertionOrder[i] : i \in 1..Len(InsertionOrder)}

Request(t) ==
    \/ GetSource(t)
    \/ \E d \in Payloads : FetchReturnsData(t, d)
    \/ MarkSourceUsed(t)
    \/ FetchReturnsNone(t)
    \/ FetchRaises(t)

Sweep == SweepStart \/ SweepVisit \/ SweepWake

Next ==
    \/ \E t \in Threads : Request(t)
    \/ \E p \in AllNames : Reenable(p)
    \/ Sweep
    \/ Tick

Spec == Init /\ [][Next]_vars

(* fetch_weather_data is in progress on thread t. *)
InCall(t) == pc[t] \in {"fetching", "mark"}

(* The calls of fetch_weather_data run one at a time. *)
OneAtATime == \A t, u \in Threads : (InCall(t) /\ InCall(u)) => t = u

SeqNext == Next /\ OneAtATime'

SeqSpec == Init /\ [][SeqNext]_vars

(* Every thread that can run does run, and time passes. *)
Fairness ==
    /\ WF_vars(Tick)
    /\ WF_vars(Sweep)
    /\ \A p \in AllNames : WF_vars(Reenable(p))

(* The process started without credentials: metno is the only provider. *)
FairInit == Init /\ DOMAIN sources = {"metno"}

FairSpec == FairInit /\ [][Next]_vars /\ Fairness

(* ------------------------------ construction -------------------------- *)

(* The process before DataSourceManager() at line 529 has run, in any      *)
(* environment: no registry, no reset thread.                              *)
LoadInit ==
    /\ environ \in AllEnvironments
    /\ sources = <<>>
    /\ timers = <<>>
    /\ cooling = <<>>
    /\ pc = [t \in Threads |-> "idle"]
    /\ source = [t \in Threads |-> None]
    /\ data = [t \in Threads |-> None]
    /\ usage_read = [t \in Threads |-> 0]
    /\ result = [t \in Threads |-> Pending]
    /\ attempts = [t \in Threads |-> 0]
    /\ sweep_pc = "new"
    /\ sweep_todo = <<>>
    /\ sleep_left = 0
    /\ depth = 0
    /\ days = DefaultDays
    /\ response = NoResponse
    /\ dispatched = NotCounted

(* lines 34-37: self.sources = {}, _load_sources(), and the reset thread   *)
(* is started.                                                             *)
__init__ ==
    /\ sweep_pc = "new"
    /\ sources' = _load_sources(environ)
    /\ timers' = [p \in DOMAIN sources' |-> <<>>]
    /\ cooling' = [p \in DOMAIN sources' |-> <<>>]
    /\ sweep_pc' = "start"
    /\ UNCHANGED <<request_vars, io_vars, sweep_todo, sleep_left, depth, dispatched>>

LoadSpec == LoadInit /\ [][__init__]_vars


(* ------------------------------ Python values ------------------------- *)
(* A dict is a record, a list a sequence, a number an integer.  Where a    *)
(* dict may stand, None and a raised exception are the records below.     *)

NoneDict == [py |-> "None"]
IndexError == [py |-> "IndexError"]
RequestException == [py |-> "RequestException"]

IsNone(x) == "py" \in DOMAIN x /\ x.py = "None"
IsRaise(x) == "py" \in DOMAIN x /\ x.py # "None"

(* {} *)
EmptyDict == [k \in {} |-> 0]

(* d.get(key, default) *)
get(d, key, default) == IF key \in DOMAIN d THEN d[key] ELSE default

(* The dict d without the keys in keys (used to build payloads). *)
without(d, keys) == [k \in (DOMAIN d) \ keys |-> d[k]]

(* lst[:n] for n >= 0 *)
slice(lst, n) == SubSeq(lst, 1, Min(n, Len(lst)))

(* int(round(n / d, 0)) for d > 0: Python rounds a tie to the even integer. *)
round(n, d) ==
    LET q == n \div d
        r == n % d
    IN IF 2 * r < d THEN q
       ELSE IF 2 * r > d THEN q + 1
       ELSE IF q % 2 = 0 THEN q ELSE q + 1

(* str(x) of an integer *)
str(x) == ToString(x)

(* c * 9/5 + 32 for c = n / d, as a fraction over 5 * d: its numerator. *)
fahrenheit(n, d) == 9 * n + 160 * d

(* ------------------------------ the adapters -------------------------- *)
(* Of the dicts the adapters build, the fields kept are the temperatures,  *)
(* weatherCode, the wind fields, FeelsLikeC, date, and the lists; the      *)
(* other fields are str(get(..)) copies of payload fields or literals.     *)
(* Temperatures and wind speeds are whole numbers; a direction is counted  *)
(* in quarters of a degree, so that 11.25 degrees is 45.                   *)

(* lines 217-230 *)
_convert_metno_to_standard(json, d) ==
    LET timeseries == get(get(json, "properties", EmptyDict), "timeseries", <<EmptyDict>>)
    IN IF Len(timeseries) = 0 THEN IndexError
       ELSE [data |->
               [current_condition |->
                  <<[temp_C |-> str(get(get(get(get(timeseries[1], "data", EmptyDict),
                                               "instant", EmptyDict),
                                           "details", EmptyDict),
                                       "air_temperature", 0)),
                     humidity |-> "50",
                     windspeedKmph |-> "10"]>>,
                weather |-> <<>>]]

(* lines 313-369: mapping *)
mapping ==
    200 :> 200 @@ 201 :> 386 @@ 202 :> 389 @@ 210 :> 200 @@ 211 :> 389
    @@ 212 :> 389 @@ 221 :> 389 @@ 230 :> 200 @@ 231 :> 386 @@ 232 :> 389
    @@ 300 :> 266 @@ 301 :> 266 @@ 302 :> 302 @@ 310 :> 266 @@ 311 :> 293
    @@ 312 :> 302 @@ 313 :> 305 @@ 314 :> 302 @@ 321 :> 299 @@ 500 :> 176
    @@ 501 :> 293 @@ 502 :> 302 @@ 503 :> 308 @@ 504 :> 308 @@ 511 :> 284
    @@ 520 :> 299 @@ 521 :> 305 @@ 522 :> 302 @@ 531 :> 305 @@ 600 :> 320
    @@ 601 :> 332 @@ 602 :> 230 @@ 611 :> 281 @@ 612 :> 284 @@ 613 :> 284
    @@ 615 :> 317 @@ 616 :> 317 @@ 620 :> 368 @@ 621 :> 371 @@ 622 :> 230
    @@ 701 :> 143 @@ 711 :> 143 @@ 721 :> 143 @@ 731 :> 143 @@ 741 :> 143
    @@ 751 :> 143 @@ 761 :> 143 @@ 762 :> 143 @@ 771 :> 143 @@ 781 :> 143
    @@ 800 :> 113 @@ 801 :> 116 @@ 802 :> 119 @@ 803 :> 119 @@ 804 :> 122

(* lines 310-370 *)
_openweather_to_wwo_code(owm_code) ==
    IF owm_code \in DOMAIN mapping THEN mapping[owm_code] ELSE 113

(* lines 374-377 *)
directions ==
    <<"N", "NNE", "NE", "ENE", "E", "ESE", "SE", "SSE",
      "S", "SSW", "SW", "WSW", "W", "WNW", "NW", "NNW">>

(* A faulty _degrees_to_16_point: the quotient is cut off, not rounded. *)
_degrees_to_16_point_floor(degrees) == directions[((degrees \div 90) % 16) + 1]

(* lines 372-379, degrees in quarters: degrees / 22.5 is degrees / 90 here. *)
_degrees_to_16_point(degrees) == directions[(round(degrees, 90) % 16) + 1]

(* lines 261-290.  hour_data['weather'] = [] makes [0] raise IndexError.   *)
(* wind_speed * 3.6 is 36 * wind_speed / 10, and times 0.621371 it is      *)
(* 36 * 621371 * wind_speed / 10^7.                                        *)
_convert_openweather_hourly(hour_data) ==
    LET temp_c == get(hour_data, "temp", 0)
        weather == get(hour_data, "weather", <<EmptyDict>>)
        weather_id == get(weather[1], "id", 800)
        wind_speed_mps == get(hour_data, "wind_speed", 0)
    IN IF Len(weather) = 0 THEN IndexError
       ELSE [temp_C |-> str(round(temp_c, 1)),
             temp_F |-> str(round(fahrenheit(temp_c, 1), 5)),
             weatherCode |-> str(_openweather_to_wwo_code(weather_id)),
             windspeedKmph |-> str(round(36 * wind_speed_mps, 10)),
             windspeedMiles |-> str(round(36 * 621371 * wind_speed_mps, 10000000)),
             winddirDegree |-> str(get(hour_data, "wind_deg", 0)),
             winddir16Point |-> _degrees_to_16_point(get(hour_data, "wind_deg", 0)),
             FeelsLikeC |-> str(round(get(hour_data, "feels_like", temp_c), 1))]

(* lines 292-308 *)
_convert_openweather_daily(day_data) ==
    LET temp == get(day_data, "temp", EmptyDict)
    IN [date |-> get(day_data, "dt", 0),
        maxtempC |-> str(round(get(temp, "max", 0), 1)),
        maxtempF |-> str(round(fahrenheit(get(temp, "max", 0), 1), 5)),
        mintempC |-> str(round(get(temp, "min", 0), 1)),
        mintempF |-> str(round(fahrenheit(get(temp, "min", 0), 1), 5)),
        avgtempC |-> str(round(get(temp, "day", 0), 1)),
        avgtempF |-> str(round(fahrenheit(get(temp, "day", 0), 1), 5)),
        hourly |-> <<>>]

(* lines 232-259 *)
_convert_openweather_to_standard(json, d) ==
    IF DOMAIN json = {} \/ "current" \notin DOMAIN json THEN NoneDict
    ELSE LET current_condition == _convert_openweather_hourly(json.current)
             daily == IF "daily" \in DOMAIN json THEN slice(json.daily, d) ELSE <<>>
         IN IF IsRaise(current_condition) THEN current_condition
            ELSE [data |->
                    [current_condition |-> <<current_condition>>,
                     weather |-> [i \in 1..Len(daily) |->
                                    _convert_openweather_daily(daily[i])]]]

(* lines 409-431 *)
_convert_weatherapi_hourly(hour_data) ==
    LET temp_c == get(hour_data, "temp_c", 0)
        wind_kmph == get(hour_data, "wind_kph", 0)
    IN [temp_C |-> str(round(temp_c, 1)),
        temp_F |-> IF "temp_f" \in DOMAIN hour_data
                   THEN str(round(hour_data.temp_f, 1))
                   ELSE str(round(fahrenheit(temp_c, 1), 5)),
        weatherCode |-> str(get(get(hour_data, "condition", EmptyDict), "code", 1000)),
        windspeedKmph |-> str(round(wind_kmph, 1)),
        windspeedMiles |-> IF "wind_mph" \in DOMAIN hour_data
                           THEN str(round(hour_data.wind_mph, 1))
                           ELSE str(round(621371 * wind_kmph, 1000000)),
        winddirDegree |-> str(get(hour_data, "wind_degree", 0)),
        winddir16Point |-> get(hour_data, "wind_dir", "N"),
        FeelsLikeC |-> str(round(get(hour_data, "feelslike_c", temp_c), 1))]

(* lines 433-449 *)
_convert_weatherapi_daily(day_data) ==
    LET day == get(day_data, "day", EmptyDict)
    IN [date |-> get(day_data, "date", 0),
        maxtempC |-> str(round(get(day, "maxtemp_c", 0), 1)),
        maxtempF |-> str(round(get(day, "maxtemp_f", 0), 1)),
        mintempC |-> str(round(get(day, "mintemp_c", 0), 1)),
        mintempF |-> str(round(get(day, "mintemp_f", 0), 1)),
        avgtempC |-> str(round(get(day, "avgtemp_c", 0), 1)),
        avgtempF |-> str(round(get(day, "avgtemp_f", 0), 1)),
        hourly |-> <<>>]

(* lines 381-407 *)
_convert_weatherapi_to_standard(json, d) ==
    IF DOMAIN json = {} \/ "current" \notin DOMAIN json \/ "location" \notin DOMAIN json
    THEN NoneDict
    ELSE LET forecastday ==
                 IF "forecast" \in DOMAIN json /\ "forecastday" \in DOMAIN json.forecast
                 THEN slice(json.forecast.forecastday, d) ELSE <<>>
         IN [data |->
               [current_condition |-> <<_convert_weatherapi_hourly(json.current)>>,
                weather |-> [i \in 1..Len(forecastday) |->
                               _convert_weatherapi_daily(forecastday[i])]]]

(* lines 488-526.  avg_temp = (max_temp + min_temp) / 2 is kept as the sum *)
(* over 2.                                                                 *)
_convert_accuweather_daily(day_data) ==
    LET temp == get(day_data, "Temperature", EmptyDict)
        real_feel == get(day_data, "RealFeelTemperature", EmptyDict)
        wind == get(get(day_data, "Wind", EmptyDict), "Speed", EmptyDict)
        max_temp == get(get(temp, "Maximum", EmptyDict), "Value", 0)
        min_temp == get(get(temp, "Minimum", EmptyDict), "Value", 0)
        avg_temp2 == max_temp + min_temp
    IN [date |-> get(day_data, "Date", 0),
        maxtempC |-> str(round(max_temp, 1)),
        maxtempF |-> str(round(fahrenheit(max_temp, 1), 5)),
        mintempC |-> str(round(min_temp, 1)),
        mintempF |-> str(round(fahrenheit(min_temp, 1), 5)),
        avgtempC |-> str(round(avg_temp2, 2)),
        avgtempF |-> str(round(fahrenheit(avg_temp2, 2), 10)),
        hourly |-> <<>>,
        temp_C |-> str(round(avg_temp2, 2)),
        temp_F |-> str(round(fahrenheit(avg_temp2, 2), 10)),
        weatherCode |-> "113",
        windspeedKmph |-> str(round(160934 * get(wind, "Value", 0), 100000)),
        windspeedMiles |-> str(round(get(wind, "Value", 0), 1)),
        winddirDegree |-> str(get(get(get(day_data, "Wind", EmptyDict),
                                      "Direction", EmptyDict), "Degrees", 0)),
        winddir16Point |-> "N",
        FeelsLikeC |-> IF "Value" \in DOMAIN get(real_feel, "Maximum", EmptyDict)
                       THEN str(round(real_feel.Maximum.Value, 1))
                       ELSE str(round(avg_temp2, 2))]

(* lines 469-475: the keys popped from the current condition. *)
popped == {"date", "maxtempC", "maxtempF", "mintempC", "mintempF", "avgtempC", "avgtempF"}

(* lines 451-486; json is a list. *)
_convert_accuweather_to_standard(json, d) ==
    IF Len(json) = 0 THEN NoneDict
    ELSE LET daily == slice(json, d)
         IN [data |->
               [current_condition |-> <<without(_convert_accuweather_daily(json[1]), popped)>>,
                weather |-> [i \in 1..Len(daily) |->
                               _convert_accuweather_daily(daily[i])]]]

(* lines 158-215: _fetch_metno .. _fetch_accuweather on the response resp  *)
(* of requests.get: an exception of requests is passed on, a status other  *)
(* than 200 gives None, and else the adapter converts response.json().     *)
(* For accuweather resp carries the status of the location search too.     *)
_fetch(src, resp, d) ==
    IF src.type # "METNO" /\ ~truthy(src.api_key) THEN NoneDict
    ELSE IF "exception" \in DOMAIN resp THEN RequestException
    ELSE IF src.type = "ACCUWEATHER" /\ resp.search_status_code # 200 THEN NoneDict
    ELSE IF resp.status_code # 200 THEN NoneDict
    ELSE CASE src.type = "METNO" -> _convert_metno_to_standard(resp.json, d)
           [] src.type = "OPENWEATHERMAP" -> _convert_openweather_to_standard(resp.json, d)
           [] src.type = "WEATHERAPI" -> _convert_weatherapi_to_standard(resp.json, d)
           [] src.type = "ACCUWEATHER" -> _convert_accuweather_to_standard(resp.json, d)

(* lines 146-156 *)
_fetch_from_source(src, resp, d) ==
    IF src.type \in {"METNO", "OPENWEATHERMAP", "WEATHERAPI", "ACCUWEATHER"}
    THEN _fetch(src, resp, d)
    ELSE NoneDict

(* ------------------------------ the payloads -------------------------- *)

Temps == (0 - MaxFrostC)..MaxTempC
Available == 0..MaxAvailable

(* MET Norway: n entries of properties.timeseries, one per day. *)
MetnoSeries(c, n) ==
    [i \in 1..n |->
       [time |-> i, data |-> [instant |-> [details |-> [air_temperature |-> c + i - 1]]]]]

MetnoJson ==
    {[type |-> "Feature"], [type |-> "Feature", properties |-> [meta |-> "units"]]}
    \cup {[type |-> "Feature", properties |-> [timeseries |-> MetnoSeries(c, n)]] :
             c \in Temps, n \in Available}

(* OpenWeatherMap: the current block, and n daily records. *)
OwmCurrent ==
    [temp |-> 20, feels_like |-> 18, wind_speed |-> 10, wind_deg |-> 360,
     weather |-> <<[id |-> 800]>>]

OwmDaily(c, n) ==
    [i \in 1..n |-> [dt |-> i, temp |-> [max |-> c + i, min |-> c - i, day |-> c]]]

OwmJson ==
    {[lat |-> 60, lon |-> 10], [lat |-> 60, lon |-> 10, daily |-> OwmDaily(20, MaxAvailable)]}
    \cup {[current |-> cur] :
             cur \in {without(OwmCurrent, {"weather"}),
                      [OwmCurrent EXCEPT !.weather = <<>>],
                      [OwmCurrent EXCEPT !.weather = <<[description |-> "mist"]>>],
                      [humidity |-> 50]}}
    \cup {[current |-> [OwmCurrent EXCEPT !.weather = <<[id |-> c]>>]] :
             c \in MinOwmCode..MaxOwmCode}
    \cup {[current |-> [OwmCurrent EXCEPT !.temp = c], daily |-> OwmDaily(c, n)] :
             c \in Temps, n \in Available}
    \cup {[current |-> [OwmCurrent EXCEPT !.wind_deg = q]] : q \in 0..MaxQuarterDegrees}

(* WeatherAPI: current, location, and n records of forecast.forecastday,   *)
(* with or without the Fahrenheit values.                                  *)
WapiCurrent ==
    [temp_c |-> 20, wind_kph |-> 36, wind_dir |-> "E", condition |-> [code |-> 1003]]

WapiLocation == [lat |-> 60, lon |-> 10]

WapiDaily(c, n, with_f) ==
    [i \in 1..n |->
       [date |-> i,
        day |-> IF with_f
                THEN [maxtemp_c |-> c + i, mintemp_c |-> c - i, avgtemp_c |-> c,
                      maxtemp_f |-> round(fahrenheit(c + i, 1), 5),
                      mintemp_f |-> round(fahrenheit(c - i, 1), 5),
                      avgtemp_f |-> round(fahrenheit(c, 1), 5)]
                ELSE [maxtemp_c |-> c + i, mintemp_c |-> c - i, avgtemp_c |-> c]]]

WapiJson ==
    {[location |-> WapiLocation], [current |-> WapiCurrent]}
    \cup {[current |-> cur, location |-> WapiLocation] :
             cur \in {WapiCurrent, without(WapiCurrent, {"condition"}),
                      [uv |-> 1], WapiCurrent @@ [temp_f |-> 68]}}
    \cup {[current |-> [WapiCurrent EXCEPT !.temp_c = c], location |-> WapiLocation,
           forecast |-> [forecastday |-> WapiDaily(c, n, with_f)]] :
             c \in Temps, n \in Available, with_f \in BOOLEAN}

(* AccuWeather: a list of n daily forecasts. *)
AccuDaily(c, n) ==
    [i \in 1..n |->
       [Date |-> i,
        Temperature |-> [Maximum |-> [Value |-> c + i], Minimum |-> [Value |-> c - 1]]]]

AccuJson == {AccuDaily(c, n) : c \in Temps, n \in Available}

(* What requests.get may give for a source of the given type. *)
Responses(type) ==
    {[exception |-> "Timeout"]}
    \cup (IF type = "ACCUWEATHER"
          THEN {[status_code |-> 200, search_status_code |-> 404, json |-> <<>>],
                [status_code |-> 503, search_status_code |-> 200, json |-> <<>>]}
               \cup {[status_code |-> 200, search_status_code |-> 200, json |-> j] :
                        j \in AccuJson}
          ELSE {[status_code |-> 503]}
               \cup {[status_code |-> 200, json |-> j] :
                        j \in CASE type = "METNO" -> MetnoJson
                                [] type = "OPENWEATHERMAP" -> OwmJson
                                [] type = "WEATHERAPI" -> WapiJson})

(* ------------------- one call, followed through its fetch ------------- *)

(* The thread whose call is followed. *)
Caller == "t1"

(* Every credential is set, and the call asks for 0..MaxDays days. *)
AdapterInit ==
    \E d \in 0..MaxDays : InitWith(FullEnvironment, d) /\ dispatched = NotCounted

(* lines 127-134: the call is made. *)
Call == response = NoResponse /\ GetSource(Caller)

(* lines 163, 177, 189, 211: requests.get returns or raises. *)
Receive ==
    /\ pc[Caller] = "fetching"
    /\ response = NoResponse
    /\ response' \in Responses(sources[source[Caller]].type)
    /\ UNCHANGED <<sources, timers, request_vars, sweep_vars, cooling, environ, days,
                   dispatched>>

(* lines 133-144: what fetch_weather_data does with the outcome of         *)
(* _fetch_from_source.                                                     *)
Dispatch ==
    /\ pc[Caller] = "fetching"
    /\ response # NoResponse
    /\ LET d == _fetch_from_source(sources[source[Caller]], response, days)
       IN IF IsRaise(d) THEN FetchRaises(Caller)
          ELSE IF IsNone(d) \/ DOMAIN d = {} THEN FetchReturnsNone(Caller)
          ELSE FetchReturnsData(Caller, d)

AdapterNext == Call \/ Receive \/ Dispatch \/ MarkSourceUsed(Caller)

AdapterSpec == AdapterInit /\ [][AdapterNext]_vars


(* ------------------------ the fetches of a quota window --------------- *)

(* The process as in Init, with the calls of _fetch_from_source counted    *)
(* for every provider.                                                     *)
QuotaInit ==
    /\ \E env \in Environments : InitWith(env, DefaultDays)
    /\ dispatched = [p \in DOMAIN sources |-> 0]

(* The calls of fetch_weather_data run one at a time. *)
QuotaSpec == QuotaInit /\ [][SeqNext]_vars


(* ------------------------------- properties --------------------------- *)

(* Provider p is enabled and under its quota. *)
Eligible(p) == sources[p].enabled /\ sources[p].current_usage < sources[p].rate_limit

(* C1: in every reachable state get_available_source returns None if and   *)
(* only if no registered provider is enabled and under its quota: None is  *)
(* among its return values, and a call of fetch_weather_data can end at    *)
(* line 131, exactly in those states.                                      *)
C1_NoneIffNoneEligible ==
    /\ (None \in get_available_source) <=> ~(\E p \in Names : Eligible(p))
    /\ \A t \in Threads : pc[t] = "idle" =>
          ((ENABLED (GetSource(t) /\ pc'[t] = "idle" /\ result'[t] = None))
              <=> ~(\E p \in Names : Eligible(p)))

(* A call has just got None from the selection while two providers are     *)
(* registered, one of them disabled and the other at its quota.            *)
C1_Witness ==
    /\ \E t \in Threads : pc[t] = "idle" /\ result[t] = None
    /\ None \in get_available_source
    /\ \E p, q \in Names :
          /\ ~sources[p].enabled
          /\ sources[q].enabled /\ sources[q].current_usage = sources[q].rate_limit

(* C2: a provider get_available_source returns is registered, enabled and  *)
(* under its quota at the moment of the call, and every eligible provider  *)
(* may be the one a call gets.                                             *)
C2_ReturnsEligibleAndAnyEligible ==
    /\ [](\A s \in get_available_source \ {None} : s \in Names /\ Eligible(s))
    /\ [](\A p \in Names : Eligible(p) =>
            /\ p \in get_available_source
            /\ \A t \in Threads : pc[t] = "idle" => ENABLED (GetSource(t) /\ source'[t] = p))
    /\ [][\A t \in Threads : (pc[t] = "idle" /\ pc'[t] = "fetching") =>
            (source'[t] \in Names /\ Eligible(source'[t]))]_vars

(* A call holds one provider while the other provider is eligible too, and *)
(* another call holds that other one.                                      *)
C2_Witness ==
    \E t, u \in Threads :
        /\ pc[t] = "fetching" /\ pc[u] = "fetching"
        /\ source[t] # source[u]
        /\ \A p \in Names : Eligible(p)


(* C3: a provider on which disable_source was called less than CoolDown    *)
(* seconds ago is not enabled, whatever happened since, a further disable  *)
(* while an earlier reenable thread was pending included.                  *)
C3_DisabledThroughCoolDown ==
    \A p \in Names : cooling[p] # <<>> => ~sources[p].enabled

(* C4: with the calls of fetch_weather_data one at a time,                 *)
(* 0 <= current_usage <= rate_limit for every provider.                    *)
C4_UsageWithinLimit ==
    \A p \in Names :
        0 <= sources[p].current_usage /\ sources[p].current_usage <= sources[p].rate_limit

(* Two providers are registered and both have used up their quota again,  *)
(* some time after the second reset sweep.                                 *)
C4_Witness ==
    /\ Cardinality(Names) = 2
    /\ \A p \in Names : sources[p].current_usage = sources[p].rate_limit
    /\ \A p \in Names : sources[p].since_reset > 0 /\ sources[p].since_reset < ResetWindow
    /\ depth >= 2

(* C5: a call whose fetch gave nothing or raised returns None, raises      *)
(* nothing, leaves its provider disabled and that provider's usage as it   *)
(* was.  (Such a call leaves "fetching" without reaching the "+= 1".)      *)
C5_FailureDisablesAndReturnsNone ==
    [][\A t \in Threads : (pc[t] = "fetching" /\ pc'[t] # "fetching" /\ pc'[t] # "mark") =>
          /\ pc'[t] = "idle"
          /\ result'[t] = None
          /\ ~sources'[source[t]].enabled
          /\ sources'[source[t]].current_usage = sources[source[t]].current_usage]_vars

(* A call has returned None after its provider, which had served a request *)
(* before, failed: the provider is disabled and its usage is still there.  *)
C5_Witness ==
    \E t \in Threads : \E p \in Names :
        /\ pc[t] = "idle" /\ result[t] = None
        /\ ~sources[p].enabled /\ cooling[p] # <<>>
        /\ sources[p].current_usage > 0

(* C6: a call whose fetch gave a non-empty result returns that result and  *)
(* stores, as the provider's usage, the usage it read plus one (one more   *)
(* than before, when no other thread wrote the counter in between); it     *)
(* changes no enabled flag and starts no reenable thread.                  *)
C6_SuccessCountsAndReturnsData ==
    [][\A t \in Threads :
          /\ (pc[t] = "fetching" /\ pc'[t] = "mark") =>
                /\ data'[t] \in Payloads
                /\ usage_read'[t] = sources[source[t]].current_usage
                /\ sources' = sources /\ timers' = timers
          /\ (pc[t] = "mark" /\ pc'[t] # "mark") =>
                /\ pc'[t] = "idle"
                /\ result'[t] = data[t] /\ data[t] \in Payloads
                /\ sources'[source[t]].current_usage = usage_read[t] + 1
                /\ (sources[source[t]].current_usage = usage_read[t] =>
                       sources'[source[t]].current_usage = sources[source[t]].current_usage + 1)
                /\ \A p \in Names : sources'[p].enabled = sources[p].enabled
                /\ timers' = timers]_vars

(* A call has returned its payload; its provider's usage is counted, and   *)
(* no provider is or was lately disabled.                                  *)
C6_Witness ==
    \E t \in Threads :
        /\ pc[t] = "idle" /\ result[t] \in Payloads
        /\ \E p \in Names : sources[p].current_usage = sources[p].rate_limit
        /\ \A p \in Names : sources[p].enabled /\ timers[p] = <<>> /\ cooling[p] = <<>>


(* The reenable threads of p that are still asleep. *)
RECURSIVE Asleep(_)
Asleep(s) == IF s = <<>> THEN 0 ELSE (IF Head(s) > 0 THEN 1 ELSE 0) + Asleep(Tail(s))

(* C7: every disable_source starts exactly one reenable thread, sleeping   *)
(* CoolDown seconds; as many reenable threads of a provider are asleep as  *)
(* disables of it are less than CoolDown seconds old; a disabled provider  *)
(* has a reenable thread pending, and is enabled again in the end (at all  *)
(* times the provider is enabled then or later).                           *)
C7_EveryDisableHasItsTimer ==
    /\ [][\A t \in Threads : (pc[t] = "fetching" /\ pc'[t] = "idle") =>
            /\ timers'[source[t]] = Append(timers[source[t]], CoolDown)
            /\ \A p \in Names \ {source[t]} : timers'[p] = timers[p]]_vars
    /\ [](\A p \in Names : Asleep(timers[p]) = Len(cooling[p]))
    /\ [](\A p \in Names : ~sources[p].enabled => timers[p] # <<>>)
    /\ \A p \in AllNames : []<>(p \in Names => sources[p].enabled)

(* A provider was disabled twice while enabled in between: it is disabled, *)
(* one of its reenable threads is due and another is asleep.               *)
C7_Witness ==
    \E p \in Names :
        /\ ~sources[p].enabled
        /\ Len(timers[p]) = 2 /\ timers[p][1] = 0 /\ timers[p][2] = CoolDown
        /\ Len(cooling[p]) = 1


(* C8: the reset sweep recurs for the whole life of the process: whenever  *)
(* a sleep of the reset thread ends, reset_usage runs again, over every    *)
(* registered provider.                                                    *)
C8_SweepRunsAgainAfterEverySleep ==
    [][(sweep_pc = "sleep" /\ sweep_pc' # "sleep") =>
          (sweep_pc' = "scan" /\ sweep_todo' = KeysInOrder(InsertionOrder))]_vars

(* C9: a pass of the reset sweep starts with every registered provider to  *)
(* visit and visits them one by one; a visit sets current_usage = 0 and    *)
(* last_reset = now exactly when now - last_reset >= ResetWindow, and else *)
(* changes neither; so a provider is reset only when its last reset lies   *)
(* ResetWindow seconds or more back.                                       *)
C9_ResetExactlyWhenDue ==
    [][/\ (sweep_pc # "scan" /\ sweep_pc' = "scan") =>
             /\ Len(sweep_todo') = Cardinality(Names)
             /\ \A p \in Names : \E i \in 1..Len(sweep_todo') : sweep_todo'[i] = p
       /\ (sweep_pc = "scan" /\ <<sweep_pc, sweep_todo>>' # <<sweep_pc, sweep_todo>>) =>
             /\ sweep_todo # <<>>
             /\ sweep_todo' = Tail(sweep_todo)
             /\ (sweep_pc' # "scan") = (sweep_todo' = <<>>)
             /\ LET p == Head(sweep_todo)
                IN IF sources[p].since_reset >= ResetWindow
                   THEN sources'[p].current_usage = 0 /\ sources'[p].since_reset = 0
                   ELSE /\ sources'[p].current_usage = sources[p].current_usage
                        /\ sources'[p].since_reset = sources[p].since_reset
       /\ \A p \in Names : sources'[p].since_reset < sources[p].since_reset =>
             /\ sources[p].since_reset >= ResetWindow
             /\ sources'[p].since_reset = 0
             /\ sources'[p].current_usage = 0]_vars

(* The second pass of the sweep has reset metno, whose last reset was an   *)
(* hour back, and has accuweather, with its quota used up, still to visit. *)
C9_Witness ==
    /\ Names = {"metno", "accuweather"}
    /\ sweep_pc = "scan" /\ sweep_todo = <<"accuweather">> /\ depth = 2
    /\ sources["metno"].current_usage = 0 /\ sources["metno"].since_reset = 0
    /\ sources["accuweather"].current_usage = sources["accuweather"].rate_limit
    /\ sources["accuweather"].since_reset = ResetWindow
    /\ \E t \in Threads : usage_read[t] > 0 /\ source[t] = "metno"

(* C10: a call of fetch_weather_data selects at most one provider and      *)
(* calls _fetch_from_source at most once; when the fetch fails the call    *)
(* is over; and no step of a call changes current_usage or enabled of a    *)
(* provider other than the one the call selected.                          *)
C10_OneProviderOneAttempt ==
    /\ [](\A t \in Threads : attempts[t] <= 1)
    /\ [][\A t \in Threads :
            /\ (pc[t] # "idle" /\ source'[t] # source[t]) => (source'[t] = None /\ pc'[t] = "idle")
            /\ (pc[t] = "fetching" /\ pc'[t] # "fetching" /\ pc'[t] # "mark") => pc'[t] = "idle"
            /\ pc'[t] # pc[t] =>
                  \A p \in Names \ {source[t], source'[t]} :
                      /\ sources'[p].current_usage = sources[p].current_usage
                      /\ sources'[p].enabled = sources[p].enabled
            /\ (pc'[t] = pc[t] /\ <<source[t], data[t], usage_read[t], result[t], attempts[t]>>'
                                    # <<source[t], data[t], usage_read[t], result[t], attempts[t]>>) =>
                  sources' = sources]_vars

(* The only call that ran has returned None after its provider failed,     *)
(* with the other provider untouched and eligible.                         *)
C10_Witness ==
    /\ \A t \in Threads : pc[t] = "idle"
    /\ \E t, u \in Threads : result[t] = None /\ result[u] = Pending
    /\ \E p, q \in Names :
          /\ p # q
          /\ ~sources[p].enabled /\ cooling[p] # <<>>
          /\ Eligible(q) /\ sources[q].current_usage = 0

(* C11: a call of fetch_weather_data made when no provider is enabled and  *)
(* under its quota can run, returns None, calls no _fetch_from_source,     *)
(* starts no reenable thread and leaves every provider's current_usage,    *)
(* last_reset and enabled as they were.                                    *)
C11_NoEligibleNoEffect ==
    /\ [](\A t \in Threads : (pc[t] = "idle" /\ ~(\E p \in Names : Eligible(p))) =>
             /\ ENABLED GetSource(t)
             /\ ~ENABLED (GetSource(t) /\ pc'[t] # "idle"))
    /\ [][\A t \in Threads :
            (/\ pc[t] = "idle"
             /\ ~(\E p \in Names : Eligible(p))
             /\ <<pc[t], source[t], data[t], usage_read[t], result[t], attempts[t]>>'
                   # <<pc[t], source[t], data[t], usage_read[t], result[t], attempts[t]>>) =>
                /\ pc'[t] = "idle" /\ result'[t] = None
                /\ attempts'[t] = 0 /\ source'[t] = None
                /\ sources' = sources /\ timers' = timers /\ cooling' = cooling]_vars

(* A call has returned None and no disable_source has run since the        *)
(* process started (no time has passed and no reenable thread exists):     *)
(* every provider is enabled and has used up its quota.                    *)
C11_Witness ==
    /\ \E t \in Threads : pc[t] = "idle" /\ result[t] = None
    /\ sweep_pc = "sleep" /\ sleep_left = SweepSleep /\ depth = 1
    /\ Cardinality(Names) = 2
    /\ \A p \in Names : /\ sources[p].enabled /\ timers[p] = <<>>
                        /\ sources[p].current_usage >= sources[p].rate_limit

(* The provider a credential variable gives access to. *)
ProviderOf(v) ==
    CASE v = "OPENWEATHERMAP_API_KEY" -> "openweathermap"
      [] v = "WEATHERAPI_KEY" -> "weatherapi"
      [] v = "ACCUWEATHER_API_KEY" -> "accuweather"

(* C12: construction goes through in every environment, and after it the   *)
(* registry holds metno, holds each of openweathermap, weatherapi and      *)
(* accuweather exactly when its credential is set and not empty, and holds *)
(* nothing else; every registered provider is enabled with current_usage 0 *)
(* and carries its credential.                                             *)
C12_RegistryFromCredentials ==
    /\ sweep_pc = "new" => ENABLED __init__
    /\ sweep_pc # "new" =>
          /\ "metno" \in Names
          /\ Names \subseteq {"metno"} \cup {ProviderOf(v) : v \in EnvVars}
          /\ \A v \in EnvVars :
                /\ (ProviderOf(v) \in Names) <=> (environ[v] # None /\ environ[v] # "")
                /\ ProviderOf(v) \in Names => sources[ProviderOf(v)].api_key = environ[v]
          /\ \A p \in Names : /\ sources[p].enabled
                              /\ sources[p].current_usage = 0
                              /\ sources[p].name = p

(* Constructed with one credential empty, one set and one not set: the     *)
(* registry is metno and weatherapi.                                       *)
C12_Witness ==
    /\ sweep_pc = "start"
    /\ environ["OPENWEATHERMAP_API_KEY"] = ""
    /\ environ["WEATHERAPI_KEY"] = "k2"
    /\ environ["ACCUWEATHER_API_KEY"] = None
    /\ Names = {"metno", "weatherapi"}

(* -------------------- properties of the followed call ------------------ *)

(* The type of the provider the followed call selected, the body of the    *)
(* response, and the dict the adapter made of it (held while the call is   *)
(* at its "+= 1").                                                         *)
Kind == sources[source[Caller]].type
Json == response.json
Converted == pc[Caller] = "mark"
Out == data[Caller].data

(* The provider answered 200 (to the location search too). *)
Answered200 ==
    /\ "status_code" \in DOMAIN response
    /\ response.status_code = 200
    /\ "search_status_code" \in DOMAIN response => response.search_status_code = 200

(* The payload has its structurally required top-level fields. *)
HasRequired(type, json) ==
    CASE type = "METNO" -> "properties" \in DOMAIN json
      [] type = "OPENWEATHERMAP" -> "current" \in DOMAIN json
      [] type = "WEATHERAPI" -> "current" \in DOMAIN json /\ "location" \in DOMAIN json
      [] type = "ACCUWEATHER" -> Len(json) > 0

(* C13: when the payload has its required top-level fields, whatever its   *)
(* optional fields are (an absent or empty weather list, an empty          *)
(* timeseries), the call goes on to record the usage with the adapter's    *)
(* record, disabling nothing, and then returns that record with the usage  *)
(* counted and the provider enabled.                                       *)
C13_OptionalFieldsDefaulted ==
    [][/\ (/\ pc[Caller] = "fetching" /\ pc'[Caller] # "fetching"
           /\ Answered200 /\ HasRequired(Kind, Json)) =>
              /\ pc'[Caller] = "mark"
              /\ "data" \in DOMAIN data'[Caller]
              /\ sources' = sources /\ timers' = timers
       /\ (/\ pc[Caller] = "mark" /\ pc'[Caller] = "idle"
           /\ Answered200 /\ HasRequired(Kind, Json)) =>
              /\ result'[Caller] = data[Caller]
              /\ sources'[source[Caller]].current_usage
                    = sources[source[Caller]].current_usage + 1
              /\ sources'[source[Caller]].enabled]_vars

(* The payload lacks the top-level field that carries the current          *)
(* conditions.                                                             *)
LacksCurrent(type, json) ==
    CASE type = "METNO" -> "properties" \notin DOMAIN json
      [] type = "OPENWEATHERMAP" -> "current" \notin DOMAIN json
      [] type = "WEATHERAPI" -> "current" \notin DOMAIN json
      [] type = "ACCUWEATHER" -> Len(json) = 0

(* C14: for each of the four adapters, a payload that lacks the top-level  *)
(* field carrying the current conditions is converted to None.             *)
C14_NoCurrentGivesNone ==
    (/\ pc[Caller] = "fetching" /\ response # NoResponse
     /\ Answered200 /\ LacksCurrent(Kind, Json)) =>
        IsNone(_fetch_from_source(sources[source[Caller]], response, days))

(* The daily records of a payload, in its order, and the date of one. *)
DailyRecords(type, json) ==
    CASE type = "METNO" -> get(get(json, "properties", EmptyDict), "timeseries", <<>>)
      [] type = "OPENWEATHERMAP" -> get(json, "daily", <<>>)
      [] type = "WEATHERAPI" -> get(get(json, "forecast", EmptyDict), "forecastday", <<>>)
      [] type = "ACCUWEATHER" -> json

DateOf(type, record) ==
    CASE type = "METNO" -> record.time
      [] type = "OPENWEATHERMAP" -> record.dt
      [] type = "WEATHERAPI" -> record.date
      [] type = "ACCUWEATHER" -> record.Date

(* C15: the weather list of a converted payload has min(days, available)   *)
(* entries, available being the number of daily records of the payload,    *)
(* and they are the first records of the payload in its order.             *)
C15_WeatherHasMinDaysAvailable ==
    Converted =>
        LET daily == DailyRecords(Kind, Json)
        IN /\ Len(Out.weather) = Min(days, Len(daily))
           /\ \A i \in 1..Len(Out.weather) : Out.weather[i].date = DateOf(Kind, daily[i])

(* The integers nearest to n / d, for d > 0 (two of them at a tie). *)
Nearest(n, d) == {i \in (n \div d)..((n \div d) + 1) : 2 * (n - i * d) <= d /\ 2 * (i * d - n) <= d}

(* The 16 compass points in the order of the specification. *)
CompassPoints ==
    <<"N", "NNE", "NE", "ENE", "E", "ESE", "SE", "SSE",
      "S", "SSW", "SW", "WSW", "W", "WNW", "NW", "NNW">>

(* C16: the compass point given for a direction of q quarters of a degree, *)
(* 0 <= q <= MaxQuarterDegrees, is the entry of the list at index          *)
(* (an integer nearest to q / 90) mod 16, an index within 0..15; 0 gives   *)
(* N, 22.5 degrees NNE, 360 degrees N and 348.75 degrees N.                *)
C16_CompassPointOfDegrees ==
    (Converted /\ Kind = "OPENWEATHERMAP") =>
        LET q == get(Json.current, "wind_deg", 0)
            point == Out.current_condition[1].winddir16Point
        IN /\ \E i \in Nearest(q, 90) :
                 (i % 16) \in 0..15 /\ point = CompassPoints[(i % 16) + 1]
           /\ q = 0 => point = "N"
           /\ q = 90 => point = "NNE"
           /\ q = 1440 => point = "N"
           /\ q = 1395 => point = "N"

(* A payload with the wind from 348.75 degrees was converted: N. *)
C16_Witness ==
    /\ Converted /\ Kind = "OPENWEATHERMAP"
    /\ get(Json.current, "wind_deg", 0) = 1395
    /\ Out.current_condition[1].winddir16Point = "N"

(* The canonical code the claim gives the payload's condition code: the    *)
(* entry of the adapter's table, 113 for a code without entry or no code.  *)
ExpectedCode(type, json) ==
    IF type = "OPENWEATHERMAP"
    THEN LET weather == get(json.current, "weather", <<>>)
         IN IF Len(weather) > 0 /\ "id" \in DOMAIN weather[1] /\ weather[1].id \in DOMAIN mapping
            THEN mapping[weather[1].id]
            ELSE 113
    ELSE 113

(* C17: the weatherCode of a converted payload is the table entry of the   *)
(* provider's condition code, and 113 when the code has no entry or is     *)
(* missing.                                                                *)
C17_WeatherCodeFromTable ==
    (Converted /\ "weatherCode" \in DOMAIN Out.current_condition[1]) =>
        Out.current_condition[1].weatherCode = str(ExpectedCode(Kind, Json))

(* text is an integer nearest to c * 9/5 + 32 for c = n / d. *)
IsFahrenheitOf(text, n, d) == \E v \in Nearest(fahrenheit(n, d), 5 * d) : text = str(v)

(* The Fahrenheit fields of a converted current block or daily record,     *)
(* each with the Celsius value of the payload it belongs to (n / d) and    *)
(* whether the payload supplies the Fahrenheit value itself.               *)
CurrentFahrenheit(type, json) ==
    CASE type = "METNO" -> {}
      [] type = "OPENWEATHERMAP" ->
           {[f |-> "temp_F", n |-> get(json.current, "temp", 0), d |-> 1, supplied |-> FALSE]}
      [] type = "WEATHERAPI" ->
           {[f |-> "temp_F", n |-> get(json.current, "temp_c", 0), d |-> 1,
             supplied |-> "temp_f" \in DOMAIN json.current]}
      [] type = "ACCUWEATHER" ->
           {[f |-> "temp_F",
             n |-> json[1].Temperature.Maximum.Value + json[1].Temperature.Minimum.Value,
             d |-> 2, supplied |-> FALSE]}

DailyFahrenheit(type, record) ==
    CASE type = "METNO" -> {}
      [] type = "OPENWEATHERMAP" ->
           {[f |-> "maxtempF", n |-> record.temp.max, d |-> 1, supplied |-> FALSE],
            [f |-> "mintempF", n |-> record.temp.min, d |-> 1, supplied |-> FALSE],
            [f |-> "avgtempF", n |-> record.temp.day, d |-> 1, supplied |-> FALSE]}
      [] type = "WEATHERAPI" ->
           {[f |-> "maxtempF", n |-> record.day.maxtemp_c, d |-> 1,
             supplied |-> "maxtemp_f" \in DOMAIN record.day],
            [f |-> "mintempF", n |-> record.day.mintemp_c, d |-> 1,
             supplied |-> "mintemp_f" \in DOMAIN record.day],
            [f |-> "avgtempF", n |-> record.day.avgtemp_c, d |-> 1,
             supplied |-> "avgtemp_f" \in DOMAIN record.day]}
      [] type = "ACCUWEATHER" ->
           {[f |-> "maxtempF", n |-> record.Temperature.Maximum.Value, d |-> 1,
             supplied |-> FALSE],
            [f |-> "mintempF", n |-> record.Temperature.Minimum.Value, d |-> 1,
             supplied |-> FALSE],
            [f |-> "avgtempF",
             n |-> record.Temperature.Maximum.Value + record.Temperature.Minimum.Value,
             d |-> 2, supplied |-> FALSE]}

(* C18: every Fahrenheit field of a converted payload whose Fahrenheit     *)
(* value the payload does not supply is C * 9/5 + 32 rounded to a nearest  *)
(* integer, C being the Celsius value of the payload for that field, for   *)
(* the whole-degree temperatures -MaxFrostC..MaxTempC (0 gives "32", 100   *)
(* gives "212").                                                           *)
C18_FahrenheitFromCelsius ==
    Converted =>
        /\ \A x \in CurrentFahrenheit(Kind, Json) :
              ~x.supplied => IsFahrenheitOf(Out.current_condition[1][x.f], x.n, x.d)
        /\ \A i \in 1..Len(Out.weather) :
              \A x \in DailyFahrenheit(Kind, DailyRecords(Kind, Json)[i]) :
                  ~x.supplied => IsFahrenheitOf(Out.weather[i][x.f], x.n, x.d)

(* C19: with calls of fetch_weather_data overlapping in time, no provider  *)
(* ever has current_usage above its rate_limit.                            *)
C19_UsageWithinLimitWhenOverlapping ==
    \A p \in Names : ~(sources[p].current_usage > sources[p].rate_limit)

(* C20: no update of current_usage is lost: the store of a "+= 1" leaves   *)
(* the counter one above what it was just before the store, whatever the   *)
(* other threads (increments, the reset sweep) wrote since the read.       *)
C20_NoLostUpdate ==
    [][\A t \in Threads : (pc[t] = "mark" /\ pc'[t] = "idle") =>
          sources'[source[t]].current_usage = sources[source[t]].current_usage + 1]_vars

(* The fields of the DataSource s that _load_sources sets and nothing      *)
(* writes afterwards.                                                      *)
Descriptor(s) == <<s.name, s.type, s.base_url, s.api_key, s.rate_limit>>

(* The step is one of the reset thread: its place in reset_usage changes   *)
(* (SweepStart, SweepVisit, SweepWake).                                    *)
SweepStep == <<sweep_pc, sweep_todo, depth>>' # <<sweep_pc, sweep_todo, depth>>

(* The step is one of a reenable thread: the thread ends (Reenable). *)
ReenableStep == \E p \in Names : Len(timers'[p]) < Len(timers[p])

(* The step is one of a fetch_weather_data call (Request). *)
RequestStep == request_vars' # request_vars

(* C21: every actor writes its own fields only: a step of the reset sweep  *)
(* leaves enabled alone, a step of a reenable thread leaves current_usage  *)
(* and last_reset alone, a step of a request leaves last_reset alone, and  *)
(* no step after startup adds or removes a provider or changes a           *)
(* provider's name, type, base_url, api_key or rate_limit.                 *)
C21_ActorsWriteOwnFields ==
    [][\/ sources' = sources
       \/ /\ DOMAIN sources' = DOMAIN sources
          /\ \A p \in Names :
             LET old == sources[p]
                 new == sources'[p]
             IN /\ Descriptor(new) = Descriptor(old)
                /\ SweepStep => new.enabled = old.enabled
                /\ ReenableStep =>
                      /\ new.current_usage = old.current_usage
                      /\ new.since_reset = old.since_reset
                /\ RequestStep => new.since_reset = old.since_reset]_vars

(* All three actors have written to one provider: the sweep has reset it,  *)
(* a request has counted a use and another has disabled it, and a reenable *)
(* thread has enabled it again since.                                      *)
C21_Witness ==
    \E p \in Names :
        /\ sources[p].since_reset < ResetWindow
        /\ sources[p].current_usage > 0
        /\ cooling[p] # <<>>
        /\ sources[p].enabled

(* C22: between two consecutive resets of a provider's counter, the calls  *)
(* of _fetch_from_source that fetch_weather_data makes for that provider,  *)
(* failed ones included, are never more than its rate_limit.               *)
C22_DispatchesWithinQuota ==
    \A p \in DOMAIN dispatched : dispatched[p] <= sources[p].rate_limit

====
